---- MODULE Spec2Model ----
(***************************************************************************)
(* Model of probe_floppy.py: the probe pipeline of main and the four       *)
(* format probes, over track images returned by fluxengine.                *)
(*                                                                         *)
(* A track image is a sparse byte array [len, bytes]: len is the length of *)
(* the bytearray, bytes maps some offsets below len to their byte values,  *)
(* and every offset below len that bytes does not list holds 0.            *)
(* An uncaught Python exception ends the program: pc = "crashed", exc      *)
(* names the exception.  None is the string "none".                        *)
(* --debug only prints (dump_data); --drive, --tracks and --device only    *)
(* change the fluxengine command line.  They are not modelled.             *)
(***************************************************************************)
EXTENDS Integers, Sequences, FiniteSets, TLC

VARIABLES
    media_size,  \* fe_params['media_size']
    pc,          \* where the program is: main, a probe, done, crashed
    cand,        \* probe_bpb: index of the loop's next candidate
    filesystem,  \* probe_bpb: its local variable filesystem
    verdicts,    \* the (format, filesystem) pairs the probes returned, in order
    acquired,    \* the images read_track returned to the running (or last) probe
    reads,       \* log of every read_track call of the run
    output,      \* what main printed
    exc          \* the uncaught exception, if any

vars == <<media_size, pc, cand, filesystem, verdicts, acquired, reads, output, exc>>

None == "none"

\* Lengths 1..MaxShortLen of the truncated images fluxengine may write.
MaxShortLen == 3

\* Return codes of the fluxengine process: 0, and one failure code.
ReturnCodes == {0, 1}

MediaSizes == {"3.5", "5.25"}

(***************************************************************************)
(* Track images                                                            *)
(***************************************************************************)
Img(len, bytes) == [len |-> len, bytes |-> bytes]

EmptyImg == Img(0, <<>>)

\* A boot sector: jump opcode, sectors per cluster, total logical sectors
\* (little-endian at 0x13) and the two signature bytes at 0x1FE, 0x1FF.
BootImg(len, jump, spc, total, sig0, sig1) ==
    Img(len, (0 :> jump) @@ (\h0D :> spc) @@ (\h13 :> (total % 256))
             @@ (\h14 :> (total \div 256)) @@ (\h1FE :> sig0) @@ (\h1FF :> sig1))

TrackLen == 18 * 512

\* Truncated images that still hold a non-zero byte.
ShortImgs == { Img(n, (0 :> \hEB)) : n \in 1..MaxShortLen }

\* Images every decoder may produce: nothing, an unformatted track, a
\* truncated file, a sector without the 0xAA55 signature (bytes swapped),
\* a signed sector without a jump opcode.
CommonImgs ==
    { EmptyImg, Img(TrackLen, <<>>) } \cup ShortImgs
    \cup { BootImg(TrackLen, \hEB, 2, 2400, \hAA, \h55),
           BootImg(TrackLen, \h90, 2, 2400, \h55, \hAA) }

\* 5.25-inch PC images: every table entry (with both jump opcodes and
\* several cluster sizes), a bad sectors-per-cluster value, a near miss.
Ibm525Imgs ==
    CommonImgs
    \cup { BootImg(TrackLen, \hEB, 2, 2400, \h55, \hAA),
           BootImg(TrackLen, \hE9, 1, 720, \h55, \hAA),
           BootImg(TrackLen, \hEB, 128, 640, \h55, \hAA),
           BootImg(TrackLen, \hEB, 1, 360, \h55, \hAA),
           BootImg(TrackLen, \hE9, 2, 320, \h55, \hAA),
           BootImg(TrackLen, \hEB, 3, 2400, \h55, \hAA),
           BootImg(TrackLen, \hEB, 2, 2399, \h55, \hAA) }

\* A Macintosh image: a word at offset 0 and a word at 0x400, big-endian.
MacImg(len, w0, w400) ==
    Img(len, (0 :> (w0 \div 256)) @@ (1 :> (w0 % 256))
             @@ (\h400 :> (w400 \div 256)) @@ (\h401 :> (w400 % 256)))

\* 3.5-inch PC images, and what an ibm1440 read of a Macintosh HD disk gives.
Ibm35Imgs ==
    CommonImgs
    \cup { BootImg(TrackLen, \hEB, 1, 2880, \h55, \hAA),
           BootImg(TrackLen, \hE9, 2, 1440, \h55, \hAA),
           BootImg(512, \hEB, 1, 2880, \h55, \hAA),
           BootImg(512, \hEB, 1, 2879, \h55, \hAA),
           BootImg(TrackLen, \hEB, 0, 2880, \h55, \hAA),
           BootImg(TrackLen, \hEB, 3, 1440, \h55, \hAA),
           BootImg(TrackLen, \hEB, 255, 2880, \h55, \hAA),
           BootImg(TrackLen, \hEB, 1, 5760, \h55, \hAA),
           BootImg(TrackLen, \hEB, 2, 2879, \h55, \hAA),
           BootImg(TrackLen, \hEB, 2, 1441, \h55, \hAA),
           MacImg(TrackLen, \h4C4B, \h4244),
           MacImg(TrackLen, 0, \h4244),
           MacImg(TrackLen, 0, \h4245),
           Img(\h401, (\h400 :> \h42)),
           Img(512, (\h1FF :> 1)) }

\* mac800 reads: boot block and volume signatures in every combination the
\* priority chain distinguishes, and images too short for the 0x400 word.
Mac800Imgs ==
    { EmptyImg, Img(TrackLen, <<>>) } \cup ShortImgs
    \cup { MacImg(TrackLen, \h4C4B, 0),
           MacImg(TrackLen, \h4C4B, \hD2D7),
           MacImg(TrackLen, \h4C4B, \h4244),
           MacImg(TrackLen, 0, \h4244),
           MacImg(TrackLen, 0, \hD2D7),
           MacImg(TrackLen, \h4B4C, \hD2D7),
           MacImg(TrackLen, 0, \h4442),
           MacImg(TrackLen, \h4C4A, \hD7D2),
           MacImg(TrackLen, \h4C00, 0),
           Img(512, (0 :> \h4C) @@ (1 :> \h4B)),
           Img(512, (0 :> \h4C)),
           Img(\h401, (\h400 :> \h42)),
           Img(2, (1 :> \h4B)) }

\* An Amiga image: the four bytes at offset 0.
AmigaImg(len, b0, b1, b2, b3) ==
    Img(len, (0 :> b0) @@ (1 :> b1) @@ (2 :> b2) @@ (3 :> b3))

AmigaImgs ==
    { EmptyImg, Img(TrackLen, <<>>), Img(TrackLen, (4 :> 1)) } \cup ShortImgs
    \cup { AmigaImg(TrackLen, 68, 79, 83, t) : t \in 0..6 }
    \cup { AmigaImg(TrackLen, 68, 79, 83, 255),
           AmigaImg(TrackLen, 75, 73, 67, 75),
           AmigaImg(TrackLen, 100, 111, 115, 0),
           AmigaImg(TrackLen, 0, 79, 83, 1),
           AmigaImg(4, 68, 79, 83, 1) }

\* A 1541 image: directory pointer at 0x16500 and DOS version at 0x165A5.
C64Img(len, t, s, c0, c1) ==
    Img(len, (\h16500 :> t) @@ (\h16501 :> s) @@ (\h165A5 :> c0) @@ (\h165A6 :> c1))

C64Len == 357 * 256 + 21 * 256

C64Imgs ==
    { EmptyImg, Img(C64Len, <<>>), Img(C64Len, (0 :> 1)) } \cup ShortImgs
    \cup { C64Img(C64Len, \h12, \h01, 50, 65),
           C64Img(\h165A7, \h12, \h01, 50, 65),
           C64Img(C64Len, \h13, \h01, 50, 65),
           C64Img(C64Len, \h12, \h00, 50, 65),
           C64Img(C64Len, \h12, \h01, 51, 65),
           C64Img(C64Len, \h12, \h01, 50, 97),
           C64Img(C64Len, \h12, \h01, 65, 50),
           C64Img(C64Len, \h01, \h12, 50, 65),
           C64Img(C64Len, 0, 0, 50, 65),
           Img(\h16500, (0 :> 1)),
           Img(\h16501, (\h16500 :> \h12)),
           Img(\h16502, (\h16500 :> \h12) @@ (\h16501 :> \h01)),
           Img(\h165A6, (\h16500 :> \h12) @@ (\h16501 :> \h01) @@ (\h165A5 :> 50)) }

\* The files fluxengine may write for a decoder on the given media.
TrackImages(decoder, media) ==
    CASE decoder = "mac800" -> Mac800Imgs
      [] decoder = "amiga" -> AmigaImgs
      [] decoder = "commodore1541" -> C64Imgs
      [] OTHER -> IF media = "3.5" THEN Ibm35Imgs ELSE Ibm525Imgs

(***************************************************************************)
(* Helpers of the source                                                   *)
(***************************************************************************)
\* data[offset] raises IndexError
IndexRaises(data, offset) == offset >= data.len

\* data[offset], for an offset in range
Byte(data, offset) ==
    IF offset \in DOMAIN data.bytes THEN data.bytes[offset] ELSE 0

has_data(data) == \E o \in DOMAIN data.bytes : o < data.len /\ data.bytes[o] # 0

get_word_raises(data, offset) ==
    IndexRaises(data, offset) \/ IndexRaises(data, offset + 1)

get_word(data, offset, big_endian) ==
    IF big_endian
    THEN Byte(data, offset) * 256 + Byte(data, offset + 1)
    ELSE Byte(data, offset) + Byte(data, offset + 1) * 256

get_string_raises(data, offset, length) ==
    \E i \in offset..(offset + length - 1) : IndexRaises(data, i)

\* A string is the sequence of its characters' code points (chr).
get_string(data, offset, length) ==
    [k \in 1..length |-> Byte(data, offset + k - 1)]

\* read_track: bytearray('') raises TypeError ("string argument without an
\* encoding") on the failure path; otherwise the file's bytes.
read_track(rc, file) ==
    IF rc = 0 THEN [raised |-> None, data |-> file]
    ELSE [raised |-> "TypeError", data |-> EmptyImg]

\* What a read_track call adds to the log.
ReadLog(probe, decoder, cylinder, rc, r) ==
    [probe |-> probe, decoder |-> decoder, cylinder |-> cylinder, rc |-> rc,
     result |-> IF r.raised # None THEN "raised"
                ELSE IF has_data(r.data) THEN "data" ELSE "no_data"]

Acq(decoder, cylinder, data) ==
    [decoder |-> decoder, cylinder |-> cylinder, data |-> data]

Verdict(probe, format, fs) == [probe |-> probe, format |-> format, filesystem |-> fs]

(***************************************************************************)
(* main                                                                    *)
(***************************************************************************)
ProbeOrder == <<"probe_bpb", "probe_mac", "probe_amiga", "probe_c64">>

NoOutput == [text |-> None, format |-> None, filesystem |-> None]

Init ==
    /\ media_size \in MediaSizes
    /\ pc = "main"
    /\ cand = 1
    /\ filesystem = None
    /\ verdicts = <<>>
    /\ acquired = <<>>
    /\ reads = <<>>
    /\ output = NoOutput
    /\ exc = None

\* main with the test on the wrong member of the pair: it goes on when the
\* filesystem is None.
main_continues_on_filesystem(v) == v.filesystem = None

\* main's loop goes on after a verdict exactly when its format is None
main_continues(v) == v.format = None

LastReturned == verdicts[Len(verdicts)]

\* for probe in (...): probe(fluxengine_params, args.debug)
MainCall ==
    /\ pc = "main"
    /\ Len(verdicts) < Len(ProbeOrder)
    /\ verdicts # <<>> => main_continues(LastReturned)
    /\ pc' = ProbeOrder[Len(verdicts) + 1]
    /\ cand' = 1
    /\ filesystem' = None
    /\ acquired' = <<>>
    /\ UNCHANGED <<media_size, verdicts, reads, output, exc>>

\* if format is not None: print(...); exit(0)
MainReport ==
    /\ pc = "main"
    /\ verdicts # <<>>
    /\ ~main_continues(LastReturned)
    /\ output' = [text |-> "Format", format |-> LastReturned.format,
                  filesystem |-> LastReturned.filesystem]
    /\ pc' = "done"
    /\ UNCHANGED <<media_size, cand, filesystem, verdicts, acquired, reads, exc>>

\* print("Not a common format or it is corrupt")
MainUnidentified ==
    /\ pc = "main"
    /\ Len(verdicts) = Len(ProbeOrder)
    /\ main_continues(LastReturned)
    /\ output' = [text |-> "Not a common format or it is corrupt",
                  format |-> None, filesystem |-> None]
    /\ pc' = "done"
    /\ UNCHANGED <<media_size, cand, filesystem, verdicts, acquired, reads, exc>>

(***************************************************************************)
(* probe_bpb                                                               *)
(***************************************************************************)
bpb_probes(media) ==
    IF media = "3.5"
    THEN << [format |-> "ibm1440", sectors |-> 2880],
            [format |-> "ibm720", sectors |-> 1440] >>
    ELSE << [format |-> "ibm1200", sectors |-> 2400],
            [format |-> "ibm360", sectors |-> 720],
            [format |-> "ibm320", sectors |-> 640],
            [format |-> "ibm180", sectors |-> 360],
            [format |-> "ibm160", sectors |-> 320] >>

\* fat_type with the cluster count computed as a product.
fat_type_product(bpb_total_sectors, bpb_sectors_per_cluster) ==
    IF bpb_total_sectors * bpb_sectors_per_cluster < 4085 THEN "fat12"
    ELSE IF bpb_total_sectors * bpb_sectors_per_cluster < 65525 THEN "fat16"
    ELSE "fat32"

\* cluster_count = bpb_total_sectors / bpb_sectors_per_cluster is a real
\* division by a positive number: cluster_count < k iff total < k * spc.
fat_type(bpb_total_sectors, bpb_sectors_per_cluster) ==
    IF bpb_total_sectors < 4085 * bpb_sectors_per_cluster THEN "fat12"
    ELSE IF bpb_total_sectors < 65525 * bpb_sectors_per_cluster THEN "fat16"
    ELSE "fat32"

\* bpb_iteration with the FAT type assigned before the sectors-per-cluster
\* value is validated.
bpb_iteration_classify_first(data, expected, fs) ==
    IF ~has_data(data) THEN [op |-> "continue", filesystem |-> fs]
    ELSE IF get_word_raises(data, \h1FE) THEN [op |-> "raise", filesystem |-> fs]
    ELSE IF get_word(data, \h1FE, FALSE) # \hAA55 THEN [op |-> "continue", filesystem |-> fs]
    ELSE IF Byte(data, 0) \notin {\hEB, \hE9} THEN [op |-> "continue", filesystem |-> fs]
    ELSE IF get_word(data, \h13, FALSE) # expected THEN [op |-> "continue", filesystem |-> fs]
    ELSE [op |-> IF Byte(data, \h0D) \in {1, 2, 4, 8, 16, 32, 64, 128}
                 THEN "break" ELSE "continue",
          filesystem |-> IF 4085 * Byte(data, \h0D) > get_word(data, \h13, FALSE)
                         THEN "fat12" ELSE "fat16"]

\* One iteration of probe_bpb's loop on the image read for a candidate:
\* op is continue (next candidate), break, or raise; filesystem is the
\* value of the local variable after the iteration.
bpb_iteration(data, expected, fs) ==
    IF ~has_data(data) THEN [op |-> "continue", filesystem |-> fs]
    ELSE IF get_word_raises(data, \h1FE) THEN [op |-> "raise", filesystem |-> fs]
    ELSE IF get_word(data, \h1FE, FALSE) # \hAA55 THEN [op |-> "continue", filesystem |-> fs]
    ELSE IF Byte(data, 0) \notin {\hEB, \hE9} THEN [op |-> "continue", filesystem |-> fs]
    ELSE IF get_word(data, \h13, FALSE) # expected THEN [op |-> "continue", filesystem |-> fs]
    ELSE IF Byte(data, \h0D) \notin {1, 2, 4, 8, 16, 32, 64, 128}
         THEN [op |-> "continue", filesystem |-> fs]
    ELSE [op |-> "break",
          filesystem |-> fat_type(get_word(data, \h13, FALSE), Byte(data, \h0D))]

\* for format in bpb_probes[media_size]: read_track(format, 0, ...); checks
ProbeBpb ==
    /\ pc = "probe_bpb"
    /\ cand <= Len(bpb_probes(media_size))
    /\ LET c == bpb_probes(media_size)[cand] IN
       \E rc \in ReturnCodes, file \in TrackImages(c.format, media_size) :
         LET r == read_track(rc, file)
             it == bpb_iteration(r.data, c.sectors, filesystem)
         IN /\ reads' = Append(reads, ReadLog("probe_bpb", c.format, 0, rc, r))
            /\ IF r.raised # None
               THEN /\ pc' = "crashed"
                    /\ exc' = r.raised
                    /\ UNCHANGED <<cand, filesystem, verdicts, acquired>>
               ELSE /\ acquired' = Append(acquired, Acq(c.format, 0, r.data))
                    /\ filesystem' = it.filesystem
                    /\ CASE it.op = "raise" ->
                              /\ pc' = "crashed"
                              /\ exc' = "IndexError"
                              /\ UNCHANGED <<cand, verdicts>>
                         [] it.op = "break" ->
                              /\ pc' = "main"
                              /\ verdicts' = Append(verdicts,
                                     Verdict("probe_bpb", c.format, it.filesystem))
                              /\ UNCHANGED <<cand, exc>>
                         [] OTHER ->
                              /\ cand' = cand + 1
                              /\ UNCHANGED <<pc, verdicts, exc>>
    /\ UNCHANGED <<media_size, output>>

\* the loop's else clause: format = None; return format, filesystem
ProbeBpbElse ==
    /\ pc = "probe_bpb"
    /\ cand > Len(bpb_probes(media_size))
    /\ verdicts' = Append(verdicts, Verdict("probe_bpb", None, filesystem))
    /\ pc' = "main"
    /\ UNCHANGED <<media_size, cand, filesystem, acquired, reads, output, exc>>

(***************************************************************************)
(* probe_mac                                                               *)
(***************************************************************************)
Ret(format, fs) == [op |-> "return", format |-> format, filesystem |-> fs]

Raise == [op |-> "raise", format |-> None, filesystem |-> None]

Fall == [op |-> "next", format |-> None, filesystem |-> None]

\* the check of the ibm1440 read (the 1.44M HFS floppy)
mac_ibm1440_check(data) ==
    IF ~has_data(data) THEN Fall
    ELSE IF get_word_raises(data, \h400) THEN Raise
    ELSE IF get_word(data, \h400, TRUE) = \h4244 THEN Ret("ibm1440", "hfs")
    ELSE Fall

\* the checks of the mac800 read
mac_mac800_check(data) ==
    IF ~has_data(data) THEN Ret(None, None)
    ELSE IF get_word_raises(data, 0) THEN Raise
    ELSE IF get_word(data, 0, TRUE) = \h4C4B THEN Ret("mac800", "hfs")
    ELSE IF get_word_raises(data, \h400) THEN Raise
    ELSE IF get_word(data, \h400, TRUE) = \h4244 THEN Ret("mac800", "hfs")
    ELSE IF get_word(data, \h400, TRUE) = \hD2D7 THEN Ret("mac400", "mfs")
    ELSE Ret("mac800", None)

\* What a probe's step does with the outcome of its read and check; next is
\* where the probe goes on when the check falls through.
Finish(probe, decoder, cylinder, rc, r, chk, next) ==
    /\ reads' = Append(reads, ReadLog(probe, decoder, cylinder, rc, r))
    /\ IF r.raised # None
       THEN /\ pc' = "crashed"
            /\ exc' = r.raised
            /\ UNCHANGED <<verdicts, acquired>>
       ELSE /\ acquired' = Append(acquired, Acq(decoder, cylinder, r.data))
            /\ CASE chk.op = "raise" ->
                      /\ pc' = "crashed"
                      /\ exc' = "IndexError"
                      /\ UNCHANGED verdicts
                 [] chk.op = "return" ->
                      /\ pc' = "main"
                      /\ verdicts' = Append(verdicts,
                             Verdict(probe, chk.format, chk.filesystem))
                      /\ UNCHANGED exc
                 [] OTHER ->
                      /\ pc' = next
                      /\ UNCHANGED <<verdicts, exc>>

\* a probe returns None, None without reading a track
ReturnNone(probe) ==
    /\ verdicts' = Append(verdicts, Verdict(probe, None, None))
    /\ pc' = "main"
    /\ UNCHANGED <<acquired, reads, exc>>

\* probe_mac up to the check of the ibm1440 read
ProbeMac ==
    /\ pc = "probe_mac"
    /\ IF media_size = "5.25"
       THEN ReturnNone("probe_mac")
       ELSE \E rc \in ReturnCodes, file \in TrackImages("ibm1440", media_size) :
              LET r == read_track(rc, file) IN
              Finish("probe_mac", "ibm1440", 0, rc, r,
                     mac_ibm1440_check(r.data), "probe_mac_mac800")
    /\ UNCHANGED <<media_size, cand, filesystem, output>>

\* probe_mac from the mac800 read on
ProbeMacMac800 ==
    /\ pc = "probe_mac_mac800"
    /\ \E rc \in ReturnCodes, file \in TrackImages("mac800", media_size) :
         LET r == read_track(rc, file) IN
         Finish("probe_mac", "mac800", 0, rc, r,
                mac_mac800_check(r.data), "probe_mac_mac800")
    /\ UNCHANGED <<media_size, cand, filesystem, output>>

(***************************************************************************)
(* probe_amiga                                                             *)
(***************************************************************************)
\* fstypes.get(fstype, None); "DOS" is 68, 79, 83
fstypes(fstype) ==
    CASE fstype = <<68, 79, 83, 0>> -> "amiga_ofs"
      [] fstype = <<68, 79, 83, 1>> -> "amiga_ffs"
      [] fstype = <<68, 79, 83, 2>> -> "amiga_ofs_international"
      [] fstype = <<68, 79, 83, 3>> -> "amiga_ffs_international"
      [] fstype = <<68, 79, 83, 4>> -> "amiga_ofs_international_dircache"
      [] fstype = <<68, 79, 83, 5>> -> "amiga_ffs_international_dircache"
      [] OTHER -> None

amiga_check(data) ==
    IF ~has_data(data) THEN Ret(None, None)
    ELSE IF get_string_raises(data, 0, 4) THEN Raise
    ELSE Ret("amiga", fstypes(get_string(data, 0, 4)))

ProbeAmiga ==
    /\ pc = "probe_amiga"
    /\ IF media_size = "5.25"
       THEN ReturnNone("probe_amiga")
       ELSE \E rc \in ReturnCodes, file \in TrackImages("amiga", media_size) :
              LET r == read_track(rc, file) IN
              Finish("probe_amiga", "amiga", 0, rc, r, amiga_check(r.data), "probe_amiga")
    /\ UNCHANGED <<media_size, cand, filesystem, output>>

(***************************************************************************)
(* probe_c64                                                               *)
(***************************************************************************)
\* c64_check without the test of the sector byte of the directory pointer.
c64_check_track_only(data) ==
    IF ~has_data(data) THEN Ret(None, None)
    ELSE IF IndexRaises(data, \h16500) THEN Raise
    ELSE IF Byte(data, \h16500) # \h12 THEN Ret(None, None)
    ELSE IF get_string_raises(data, \h165A5, 2) THEN Raise
    ELSE IF get_string(data, \h165A5, 2) = <<50, 65>> THEN Ret("commodore1541", "2A")
    ELSE Ret(None, None)

\* '2A' is 50, 65
c64_check(data) ==
    IF ~has_data(data) THEN Ret(None, None)
    ELSE IF IndexRaises(data, \h16500) THEN Raise
    ELSE IF Byte(data, \h16500) # \h12 THEN Ret(None, None)
    ELSE IF IndexRaises(data, \h16501) THEN Raise
    ELSE IF Byte(data, \h16501) # \h01 THEN Ret(None, None)
    ELSE IF get_string_raises(data, \h165A5, 2) THEN Raise
    ELSE IF get_string(data, \h165A5, 2) = <<50, 65>> THEN Ret("commodore1541", "2A")
    ELSE Ret(None, None)

ProbeC64 ==
    /\ pc = "probe_c64"
    /\ IF media_size = "5.25"
       THEN \E rc \in ReturnCodes, file \in TrackImages("commodore1541", media_size) :
              LET r == read_track(rc, file) IN
              Finish("probe_c64", "commodore1541", 17, rc, r, c64_check(r.data), "probe_c64")
       ELSE ReturnNone("probe_c64")
    /\ UNCHANGED <<media_size, cand, filesystem, output>>

Next ==
    \/ MainCall
    \/ MainReport
    \/ MainUnidentified
    \/ ProbeBpb
    \/ ProbeBpbElse
    \/ ProbeMac
    \/ ProbeMacMac800
    \/ ProbeAmiga
    \/ ProbeC64

Spec == Init /\ [][Next]_vars

(***************************************************************************)
(* Vocabulary of the properties                                            *)
(***************************************************************************)
\* The n-th probe of the pipeline has ended: it returned (its images are
\* still in acquired), or an out-of-range read inside it ended the program.
Returned(n) == Len(verdicts) = n /\ pc \in {"main", "done"}

Ended(n) ==
    \/ Returned(n)
    \/ pc = "crashed" /\ exc = "IndexError" /\ Len(verdicts) = n - 1

IsVerdict(v, format, fs) == v.format = format /\ v.filesystem = fs

\* The image holds value v at offset o; a word in either byte order.
ByteIs(img, o, v) == o < img.len /\ Byte(img, o) = v

WordLE(img, o, w) == ByteIs(img, o, w % 256) /\ ByteIs(img, o + 1, w \div 256)

WordBE(img, o, w) == ByteIs(img, o, w \div 256) /\ ByteIs(img, o + 1, w % 256)

NonZero(img) == \E o \in DOMAIN img.bytes : o < img.len /\ img.bytes[o] > 0

ProbeIndex(p) == CHOOSE i \in 1..4 : <<"probe_bpb", "probe_mac", "probe_amiga", "probe_c64">>[i] = p

Decoders == [k \in 1..Len(reads) |-> reads[k].decoder]

IsPrefix(s, t) == Len(s) <= Len(t) /\ \A k \in 1..Len(s) : s[k] = t[k]

(***************************************************************************)
(* C1                                                                      *)
(***************************************************************************)
\* C1: the probes run in the order BPB/FAT, Macintosh, Amiga, Commodore
\* 1541; no probe runs and no track is read after a probe returned a format
\* that is not none; what main prints is the verdict of that first probe,
\* and it prints the unidentified message exactly when all four probes
\* returned format none.
C1_PipelineOrder ==
    /\ \A i \in 1..Len(verdicts) : ProbeIndex(verdicts[i].probe) = i
    /\ \A i \in 1..(Len(verdicts) - 1) : verdicts[i].format = None
    /\ \A k \in 1..Len(reads) :
         /\ ProbeIndex(reads[k].probe)
              <= Len(verdicts) + (IF pc \in {"main", "done"} THEN 0 ELSE 1)
         /\ k > 1 => ProbeIndex(reads[k - 1].probe) <= ProbeIndex(reads[k].probe)
    /\ output.text # None => pc = "done"
    /\ pc = "done" =>
         /\ output.text \in {"Format", "Not a common format or it is corrupt"}
         /\ output.text = "Format" =>
              /\ LastReturned.format # None
              /\ IsVerdict(output, LastReturned.format, LastReturned.filesystem)
         /\ output.text = "Not a common format or it is corrupt" <=>
              /\ Len(verdicts) = 4
              /\ \A i \in 1..4 : verdicts[i].format = None

\* The third probe gave the verdict after the first two returned none.
C1_Witness ==
    /\ pc = "done"
    /\ output.format = "amiga"
    /\ Len(verdicts) = 3
    /\ Len(reads) = 5

(***************************************************************************)
(* C2                                                                      *)
(***************************************************************************)
\* C2: every verdict a probe returns with format none has filesystem none.
C2_NoneFormatNoneFilesystem ==
    \A i \in 1..Len(verdicts) :
        verdicts[i].format = None => verdicts[i].filesystem = None

\* probe_bpb exhausted its table after rejecting a candidate whose only
\* fault is the sectors-per-cluster value.
C2_Witness ==
    /\ Returned(1)
    /\ verdicts[1].format = None
    /\ \E k \in 1..Len(acquired) :
         /\ WordLE(acquired[k].data, \h1FE, \hAA55)
         /\ ByteIs(acquired[k].data, 0, \hEB)
         /\ WordLE(acquired[k].data, \h13, bpb_probes(media_size)[k].sectors)
         /\ ByteIs(acquired[k].data, \h0D, 3)

(***************************************************************************)
(* C3                                                                      *)
(***************************************************************************)
\* C3: when fluxengine exits with a non-zero return code, read_track
\* returns an empty buffer, which the probe treats as no data, and the
\* program is not ended abnormally.
C3_FailureGivesEmptyBuffer ==
    /\ \A k \in 1..Len(reads) : reads[k].rc # 0 => reads[k].result = "no_data"
    /\ exc # "TypeError"

(***************************************************************************)
(* C4                                                                      *)
(***************************************************************************)
\* C4: no probe reads beyond the end of an image, whatever its length: the
\* program never ends with an index out of range.
C4_NoReadOutOfRange == exc # "IndexError"

(***************************************************************************)
(* C5                                                                      *)
(***************************************************************************)
C5_Table(media) ==
    IF media = "3.5"
    THEN << <<"ibm1440", 2880>>, <<"ibm720", 1440>> >>
    ELSE << <<"ibm1200", 2400>>, <<"ibm360", 720>>, <<"ibm320", 640>>,
            <<"ibm180", 360>>, <<"ibm160", 320>> >>

C5_Passes(img, count) ==
    /\ NonZero(img)
    /\ WordLE(img, \h1FE, \hAA55)
    /\ ByteIs(img, 0, \hEB) \/ ByteIs(img, 0, \hE9)
    /\ WordLE(img, \h13, count)
    /\ \E s \in {1, 2, 4, 8, 16, 32, 64, 128} : ByteIs(img, \h0D, s)

C5_Fat(img, count) ==
    LET s == Byte(img, \h0D) IN
    IF count < 4085 * s THEN "fat12"
    ELSE IF count < 65525 * s THEN "fat16" ELSE "fat32"

\* What C5 says of a probe_bpb that returned: the candidates were read in
\* table order from track 0, every candidate before the last one read
\* fails a check, and the verdict is the last one's if it passes and
\* (none, none) if the table is exhausted.
C5_VerdictAsClaimed ==
    LET t == C5_Table(media_size)
        n == Len(acquired)
    IN /\ n \in 1..Len(t)
       /\ \A k \in 1..n : acquired[k].decoder = t[k][1] /\ acquired[k].cylinder = 0
       /\ \A k \in 1..(n - 1) : ~C5_Passes(acquired[k].data, t[k][2])
       /\ IF C5_Passes(acquired[n].data, t[n][2])
          THEN IsVerdict(verdicts[1], t[n][1], C5_Fat(acquired[n].data, t[n][2]))
          ELSE n = Len(t) /\ IsVerdict(verdicts[1], None, None)

\* C5: probe_bpb tries the candidates in table order and returns the first
\* one whose image passes all five checks, with the FAT type of its cluster
\* count; a candidate failing a check is skipped, and (none, none) is
\* returned when none passes.
C5_BpbFirstPassingCandidate ==
    Ended(1) => Returned(1) /\ C5_VerdictAsClaimed

\* The part of C5 that the code keeps: whenever probe_bpb returns, its
\* verdict is the claimed one.
C5_HoldsWhenReturned == Returned(1) => C5_VerdictAsClaimed

(***************************************************************************)
(* C6                                                                      *)
(***************************************************************************)
C6_Chain(b) ==
    IF ~NonZero(b) THEN <<None, None>>
    ELSE IF WordBE(b, 0, \h4C4B) THEN <<"mac800", "hfs">>
    ELSE IF WordBE(b, \h400, \h4244) THEN <<"mac800", "hfs">>
    ELSE IF WordBE(b, \h400, \hD2D7) THEN <<"mac400", "mfs">>
    ELSE <<"mac800", None>>

C6_VerdictAsClaimed ==
    IF media_size = "5.25"
    THEN /\ IsVerdict(verdicts[2], None, None)
         /\ acquired = <<>>
         /\ \A k \in 1..Len(reads) : reads[k].probe # "probe_mac"
    ELSE /\ Len(acquired) >= 1
         /\ acquired[1].decoder = "ibm1440" /\ acquired[1].cylinder = 0
         /\ IF NonZero(acquired[1].data) /\ WordBE(acquired[1].data, \h400, \h4244)
            THEN Len(acquired) = 1 /\ IsVerdict(verdicts[2], "ibm1440", "hfs")
            ELSE /\ Len(acquired) = 2
                 /\ acquired[2].decoder = "mac800" /\ acquired[2].cylinder = 0
                 /\ LET v == C6_Chain(acquired[2].data)
                    IN IsVerdict(verdicts[2], v[1], v[2])

\* C6: for every pair of ibm1440 and mac800 images probe_mac returns the
\* verdict of the priority chain (ibm1440 HFS signature, then mac800 empty,
\* boot block, HFS, MFS, unknown filesystem); on 5.25-inch media it returns
\* (none, none) and reads no track.
C6_MacPriorityChain ==
    Ended(2) => Returned(2) /\ C6_VerdictAsClaimed

\* The part of C6 that the code keeps: whenever probe_mac returns.
C6_HoldsWhenReturned == Returned(2) => C6_VerdictAsClaimed

(***************************************************************************)
(* C7                                                                      *)
(***************************************************************************)
C7_Filesystem(img) ==
    LET names == << "amiga_ofs", "amiga_ffs", "amiga_ofs_international",
                    "amiga_ffs_international", "amiga_ofs_international_dircache",
                    "amiga_ffs_international_dircache" >>
    IN IF /\ ByteIs(img, 0, 68) /\ ByteIs(img, 1, 79) /\ ByteIs(img, 2, 83)
          /\ \E t \in 0..5 : ByteIs(img, 3, t)
       THEN names[Byte(img, 3) + 1]
       ELSE None

C7_VerdictAsClaimed ==
    IF media_size = "5.25"
    THEN IsVerdict(verdicts[3], None, None) /\ acquired = <<>>
    ELSE /\ Len(acquired) = 1
         /\ acquired[1].decoder = "amiga" /\ acquired[1].cylinder = 0
         /\ IF NonZero(acquired[1].data)
            THEN IsVerdict(verdicts[3], "amiga", C7_Filesystem(acquired[1].data))
            ELSE IsVerdict(verdicts[3], None, None)

\* C7: on 3.5-inch media probe_amiga returns format amiga exactly when the
\* amiga image holds a non-zero byte, with the filesystem of the DOS tag at
\* offset 0 (none for any other tag); an empty or all-zero image and
\* 5.25-inch media give (none, none).
C7_AmigaIffData ==
    Ended(3) => Returned(3) /\ C7_VerdictAsClaimed

\* The part of C7 that the code keeps: whenever probe_amiga returns.
C7_HoldsWhenReturned == Returned(3) => C7_VerdictAsClaimed

(***************************************************************************)
(* C8                                                                      *)
(***************************************************************************)
C8_PointerAndTag(img) ==
    /\ NonZero(img)
    /\ ByteIs(img, \h16500, \h12) /\ ByteIs(img, \h16501, \h01)
    /\ ByteIs(img, \h165A5, 50) /\ ByteIs(img, \h165A6, 65)

\* How many of the four checked bytes an image of full length has right.
C8_RightBytes(img) ==
    Cardinality({ c \in { <<\h16500, \h12>>, <<\h16501, \h01>>,
                          <<\h165A5, 50>>, <<\h165A6, 65>> } :
                  ByteIs(img, c[1], c[2]) })

\* C8: probe_c64 returns (commodore1541, "2A") exactly when the media is
\* 5.25-inch and the commodore1541 image of track 17 has data, 0x12 0x01 at
\* 0x16500 and '2' 'A' at 0x165A5; an image with one of those four bytes
\* changed, an empty or all-zero image, and 3.5-inch media give
\* (none, none), and on 3.5-inch media no track is read.
C8_C64Verdict ==
    Ended(4) =>
      /\ (Returned(4) /\ IsVerdict(verdicts[4], "commodore1541", "2A")) <=>
           /\ media_size = "5.25"
           /\ Len(acquired) = 1
           /\ acquired[1].decoder = "commodore1541" /\ acquired[1].cylinder = 17
           /\ C8_PointerAndTag(acquired[1].data)
      /\ media_size = "3.5" =>
           /\ Returned(4) /\ IsVerdict(verdicts[4], None, None)
           /\ acquired = <<>>
           /\ \A k \in 1..Len(reads) : reads[k].probe # "probe_c64"
      /\ (/\ media_size = "5.25"
          /\ Len(acquired) = 1
          /\ \/ ~NonZero(acquired[1].data)
             \/ /\ acquired[1].data.len > \h165A6
                /\ C8_RightBytes(acquired[1].data) = 3) =>
           Returned(4) /\ IsVerdict(verdicts[4], None, None)

\* probe_c64 identified a 1541 disk.
C8_Witness ==
    /\ Returned(4)
    /\ IsVerdict(verdicts[4], "commodore1541", "2A")
    /\ C8_PointerAndTag(acquired[1].data)

\* probe_c64 rejected an image with exactly one of the four bytes wrong.
C8_WitnessOneByteOff ==
    /\ Returned(4)
    /\ IsVerdict(verdicts[4], None, None)
    /\ Len(acquired) = 1
    /\ acquired[1].data.len > \h165A6
    /\ C8_RightBytes(acquired[1].data) = 3

(***************************************************************************)
(* C9                                                                      *)
(***************************************************************************)
\* C9: every verdict of probe_bpb whose format is not none has filesystem
\* fat12: fat16 and fat32 are never returned.
C9_BpbAlwaysFat12 ==
    \A i \in 1..Len(verdicts) :
        (verdicts[i].probe = "probe_bpb" /\ verdicts[i].format # None)
            => verdicts[i].filesystem = "fat12"

\* The largest cluster count there is: 2880 sectors, one sector per cluster.
C9_Witness ==
    /\ Returned(1)
    /\ verdicts[1].format = "ibm1440"
    /\ WordLE(acquired[Len(acquired)].data, \h13, 2880)
    /\ ByteIs(acquired[Len(acquired)].data, \h0D, 1)

(***************************************************************************)
(* C10                                                                     *)
(***************************************************************************)
C10_Mac800HadData ==
    \E k \in 1..Len(reads) : reads[k].decoder = "mac800" /\ reads[k].result = "data"

C10_Safe ==
    /\ (media_size = "3.5" /\ C10_Mac800HadData) =>
          \A k \in 1..Len(reads) : reads[k].decoder # "amiga"
    /\ output.format = "amiga" =>
          \E k \in 1..Len(reads) :
              reads[k].decoder = "mac800" /\ reads[k].result = "no_data"
    /\ media_size = "5.25" =>
          /\ IsPrefix(Decoders, <<"ibm1200", "ibm360", "ibm320", "ibm180",
                                  "ibm160", "commodore1541">>)
          /\ \A k \in 1..Len(reads) :
                 reads[k].cylinder = IF reads[k].decoder = "commodore1541" THEN 17 ELSE 0

C10_HasBpbOrMacVerdict ==
    /\ output.text = "Format"
    /\ output.format # None
    /\ LastReturned.probe \in {"probe_bpb", "probe_mac"}

\* C10: the Amiga probe gives the final verdict only when the mac800 read
\* returned no data; on 3.5-inch media, once the mac800 read returned data
\* the amiga decoder is never invoked and the run ends with a verdict of
\* the BPB or Macintosh probe whose format is not none; on 5.25-inch media
\* the reads are the five BPB candidates and then at most one
\* commodore1541 read.
C10_AmigaOnlyAfterEmptyMac800 ==
    /\ C10_Safe
    /\ (media_size = "3.5" /\ C10_Mac800HadData /\ pc \in {"done", "crashed"}) =>
          C10_HasBpbOrMacVerdict

\* The part of C10 that the code keeps: the same, for the runs that end
\* in main.
C10_HoldsWhenReturned ==
    /\ C10_Safe
    /\ (media_size = "3.5" /\ C10_Mac800HadData /\ pc = "done") =>
          C10_HasBpbOrMacVerdict

====
